---------------------------- MODULE Spec2Model ----------------------------
(***************************************************************************)
(* A model of calculator.py: the complex-number calculator.                *)
(*                                                                         *)
(* Python floats are IEEE-754 binary64.  The model keeps the format's      *)
(* structure (sign, significand of Prec bits, bounded exponent, gradual    *)
(* underflow, round-to-nearest-even, signed zero, infinities, NaN) at a    *)
(* reduced width, so that rounding, underflow and overflow happen on small *)
(* values.  A finite float is held as a sign and a magnitude counted in    *)
(* units of the smallest positive float, 2^-Frac.                          *)
(*                                                                         *)
(* Strings are sequences of one-character strings.                         *)
(***************************************************************************)
EXTENDS Integers, Sequences, FiniteSets, TLC

\* Width of the reduced float format.
Prec == 3
\* Number of binades above the subnormal range.
EMax == 5
\* Number of fractional bits: the float 1.0 is 2^Frac units.
Frac == 3

Pow2(k) == 2 ^ k
Pow10(k) == 10 ^ k

One == Pow2(Frac)
MaxFinite == (Pow2(Prec) - 1) * Pow2(EMax)

---------------------------------------------------------------------------
\* Float values.

NaN == [c |-> "nan", s |-> 0, n |-> 0]
Inf(s) == [c |-> "inf", s |-> s, n |-> 0]
Fin(s, n) == [c |-> "fin", s |-> s, n |-> n]
Zero == Fin(0, 0)

IsNaN(x) == x.c = "nan"
IsInf(x) == x.c = "inf"
IsFinite(x) == x.c = "fin"

\* The exponent of the binade a magnitude q falls in: the least k with q < 2^(Prec+k).
RECURSIVE Binade(_, _)
Binade(q, k) == IF q < Pow2(Prec + k) THEN k ELSE Binade(q, k + 1)

Representable(n) == n <= MaxFinite /\ n % Pow2(Binade(n, 0)) = 0

Magnitudes == {n \in 0..MaxFinite : Representable(n)}
Floats == {Fin(s, n) : s \in {0, 1}, n \in Magnitudes} \cup {Inf(0), Inf(1), NaN}

\* The signed number of units of a finite float.
Val(x) == IF x.s = 1 THEN -x.n ELSE x.n

\* Round the non-negative rational num/den (in units) to the nearest float,
\* ties to the even significand; a result above MaxFinite is an infinity.
RoundMag(num, den) ==
    LET q == num \div den
        u == Pow2(Binade(q, 0))
        lo == (q \div u) * u
        rem2 == 2 * (num - lo * den)
        half2 == u * den
        up == rem2 > half2 \/ (rem2 = half2 /\ (lo \div u) % 2 = 1)
    IN IF up THEN lo + u ELSE lo

Round(s, num, den) ==
    LET m == RoundMag(num, den)
    IN IF m > MaxFinite THEN Inf(s) ELSE Fin(s, m)

\* floor(sqrt(n)) by bisection.
RECURSIVE IsqrtIn(_, _, _)
IsqrtIn(n, lo, hi) ==
    IF hi - lo <= 1 THEN lo
    ELSE LET mid == (lo + hi) \div 2
         IN IF mid * mid <= n THEN IsqrtIn(n, mid, hi) ELSE IsqrtIn(n, lo, mid)

Isqrt(n) == IsqrtIn(n, 0, n + 1)

\* x == y on floats: NaN equals nothing, the two zeros are equal.
FEq(x, y) == /\ ~IsNaN(x) /\ ~IsNaN(y)
             /\ x.c = y.c
             /\ IF IsInf(x) THEN x.s = y.s ELSE Val(x) = Val(y)

\* x >= 0 on floats: false for NaN.
FGeZero(x) == ~IsNaN(x) /\ (x.s = 0 \/ (IsFinite(x) /\ x.n = 0))

FNeg(x) == IF IsNaN(x) THEN x ELSE [x EXCEPT !.s = 1 - x.s]
FAbs(x) == IF IsNaN(x) THEN x ELSE [x EXCEPT !.s = 0]

FAdd(x, y) ==
    IF IsNaN(x) \/ IsNaN(y) THEN NaN
    ELSE IF IsInf(x) /\ IsInf(y) THEN (IF x.s = y.s THEN x ELSE NaN)
    ELSE IF IsInf(x) THEN x
    ELSE IF IsInf(y) THEN y
    ELSE LET v == Val(x) + Val(y)
         IN IF v = 0 THEN Fin(IF x.s = 1 /\ y.s = 1 THEN 1 ELSE 0, 0)
            ELSE IF v < 0 THEN Round(1, -v, 1)
            ELSE Round(0, v, 1)

FSub(x, y) == FAdd(x, FNeg(y))

FMul(x, y) ==
    LET s == (x.s + y.s) % 2
    IN IF IsNaN(x) \/ IsNaN(y) THEN NaN
       ELSE IF IsInf(x) \/ IsInf(y)
            THEN (IF (IsFinite(x) /\ x.n = 0) \/ (IsFinite(y) /\ y.n = 0)
                  THEN NaN ELSE Inf(s))
       ELSE Round(s, x.n * y.n, One)

\* x / y for y that is not zero (the only use sits behind a zero test).
FDiv(x, y) ==
    LET s == (x.s + y.s) % 2
    IN IF IsNaN(x) \/ IsNaN(y) THEN NaN
       ELSE IF IsInf(x) THEN (IF IsInf(y) THEN NaN ELSE Inf(s))
       ELSE IF IsInf(y) THEN Fin(s, 0)
       ELSE IF y.n = 0 THEN NaN
       ELSE Round(s, x.n * One, y.n)

\* math.sqrt(x) for x >= 0 or NaN, correctly rounded.
FSqrt(x) ==
    IF ~IsFinite(x) THEN x
    ELSE LET n == x.n * One
             r == Isqrt(n)
             u == Pow2(Binade(r, 0))
             lo == (r \div u) * u
             mid2 == 2 * lo + u
             up == 4 * n > mid2 * mid2 \/ (4 * n = mid2 * mid2 /\ (lo \div u) % 2 = 1)
         IN Fin(0, IF up THEN lo + u ELSE lo)

---------------------------------------------------------------------------
\* Strings, and the conversions between floats and strings.

DigitChars == <<"0", "1", "2", "3", "4", "5", "6", "7", "8", "9">>
IsDigit(ch) == \E i \in 1..10 : DigitChars[i] = ch
DigitVal(ch) == (CHOOSE i \in 1..10 : DigitChars[i] = ch) - 1
Whitespace == {" "}

\* The decimal digits of a natural number.
RECURSIVE Digits(_)
Digits(n) == IF n < 10 THEN <<DigitChars[n + 1]>>
             ELSE Append(Digits(n \div 10), DigitChars[(n % 10) + 1])

\* The natural number a sequence of digits denotes.
RECURSIVE NumOf(_)
NumOf(ds) == IF ds = <<>> THEN 0
             ELSE 10 * NumOf(SubSeq(ds, 1, Len(ds) - 1)) + DigitVal(ds[Len(ds)])

RECURSIVE DropTrailingZeros(_)
DropTrailingZeros(ds) ==
    IF Len(ds) > 1 /\ ds[Len(ds)] = "0"
    THEN DropTrailingZeros(SubSeq(ds, 1, Len(ds) - 1)) ELSE ds

RECURSIVE PadLeft(_, _)
PadLeft(ds, w) == IF Len(ds) >= w THEN ds ELSE PadLeft(<<"0">> \o ds, w)

\* repr(x) of a float, which is what an f-string field renders.  Within the
\* range of the reduced format (no value below 1e-4 or above 1e16) repr uses
\* positional notation, and a float of few bits prints its exact expansion.
FloatRepr(x) ==
    IF IsNaN(x) THEN <<"n", "a", "n">>
    ELSE IF IsInf(x) THEN (IF x.s = 1 THEN <<"-">> ELSE <<>>) \o <<"i", "n", "f">>
    ELSE (IF x.s = 1 THEN <<"-">> ELSE <<>>)
         \o Digits(x.n \div One) \o <<".">>
         \o DropTrailingZeros(PadLeft(Digits((x.n % One) * (5 ^ Frac)), Frac))

\* str.strip()
RECURSIVE LStrip(_)
LStrip(s) == IF s # <<>> /\ s[1] \in Whitespace THEN LStrip(Tail(s)) ELSE s
RECURSIVE RStrip(_)
RStrip(s) == IF s # <<>> /\ s[Len(s)] \in Whitespace
             THEN RStrip(SubSeq(s, 1, Len(s) - 1)) ELSE s
Strip(s) == LStrip(RStrip(s))

\* The index of the first occurrence of ch in s, or 0.
IndexOf(s, ch) == IF \E i \in 1..Len(s) : s[i] = ch
                  THEN CHOOSE i \in 1..Len(s) : s[i] = ch /\ \A j \in 1..(i - 1) : s[j] # ch
                  ELSE 0

\* str.split(sep): the fields between every occurrence of sep.
RECURSIVE Split(_, _)
Split(s, sep) ==
    LET i == IndexOf(s, sep)
    IN IF i = 0 THEN <<s>>
       ELSE <<SubSeq(s, 1, i - 1)>> \o Split(SubSeq(s, i + 1, Len(s)), sep)

AllDigits(s) == \A i \in 1..Len(s) : IsDigit(s[i])

\* A value or a raised exception.  An exception has a kind (its class), a
\* message template and the text interpolated into the message.
NoExc == [kind |-> "none", msg |-> "", arg |-> <<>>]
Exc(kind, msg, arg) == [kind |-> kind, msg |-> msg, arg |-> arg]
Ok(v) == [ok |-> TRUE, val |-> v, exc |-> NoExc]
Raise(filler, e) == [ok |-> FALSE, val |-> filler, exc |-> e]

\* float(s): surrounding whitespace, an optional sign, then inf, infinity, nan
\* or a decimal numeral with at least one digit; correctly rounded.
\* (Exponents, underscores and capitals are outside the model's alphabet.)
ParseFloat(s) ==
    LET t == Strip(s)
        signed == t # <<>> /\ t[1] \in {"+", "-"}
        sg == IF signed /\ t[1] = "-" THEN 1 ELSE 0
        body == IF signed THEN Tail(t) ELSE t
        dot == IndexOf(body, ".")
        ip == IF dot = 0 THEN body ELSE SubSeq(body, 1, dot - 1)
        fp == IF dot = 0 THEN <<>> ELSE SubSeq(body, dot + 1, Len(body))
        bad == Raise(NaN, Exc("ValueError", "could not convert string to float: {}", s))
    IN IF body = <<"i", "n", "f">> \/ body = <<"i", "n", "f", "i", "n", "i", "t", "y">>
       THEN Ok(Inf(sg))
       ELSE IF body = <<"n", "a", "n">> THEN Ok(NaN)
       ELSE IF AllDigits(ip) /\ AllDigits(fp) /\ Len(ip) + Len(fp) > 0
       THEN Ok(Round(sg, NumOf(ip \o fp) * One, Pow10(Len(fp))))
       ELSE bad

---------------------------------------------------------------------------
\* class ComplexNumber

ComplexNumber(real, img) == [real |-> real, img |-> img]
NoNumber == ComplexNumber(NaN, NaN)

\* (mutant) the fields converted without being stripped first
from_string_unstripped(value) ==
    LET parts == Split(value, ",")
        real == ParseFloat(parts[1])
        img == ParseFloat(parts[2])
    IN IF Len(parts) < 2
       THEN Raise(NoNumber, Exc("ValueError", "not enough values to unpack (expected 2, got 1)", <<>>))
       ELSE IF Len(parts) > 2
       THEN Raise(NoNumber, Exc("ValueError", "too many values to unpack (expected 2)", <<>>))
       ELSE IF ~real.ok THEN Raise(NoNumber, real.exc)
       ELSE IF ~img.ok THEN Raise(NoNumber, img.exc)
       ELSE Ok(ComplexNumber(real.val, img.val))

\* ComplexNumber.from_string: split on every comma, unpack exactly two fields,
\* convert the stripped real field, then the stripped imaginary field.
from_string(value) ==
    LET parts == Split(value, ",")
        real == ParseFloat(Strip(parts[1]))
        img == ParseFloat(Strip(parts[2]))
    IN IF Len(parts) < 2
       THEN Raise(NoNumber, Exc("ValueError", "not enough values to unpack (expected 2, got 1)", <<>>))
       ELSE IF Len(parts) > 2
       THEN Raise(NoNumber, Exc("ValueError", "too many values to unpack (expected 2)", <<>>))
       ELSE IF ~real.ok THEN Raise(NoNumber, real.exc)
       ELSE IF ~img.ok THEN Raise(NoNumber, img.exc)
       ELSE Ok(ComplexNumber(real.val, img.val))

\* x ** 2 on a float: an overflowing power raises OverflowError, an
\* underflowing one is zero.
FPow2(x) ==
    LET r == FMul(x, x)
    IN IF IsFinite(x) /\ IsInf(r)
       THEN Raise(NaN, Exc("OverflowError", "(34, 'Numerical result out of range')", <<>>))
       ELSE Ok(r)

\* ComplexNumber.magnitude
magnitude(z) ==
    LET r2 == FPow2(z.real)
        i2 == FPow2(z.img)
    IN IF ~r2.ok THEN r2
       ELSE IF ~i2.ok THEN i2
       ELSE Ok(FSqrt(FAdd(r2.val, i2.val)))

\* (mutant) the sign test written with > in place of >=
img_sign_strict(z) == IF FGeZero(z.img) /\ ~FEq(z.img, Zero) THEN "+" ELSE "-"

\* The sign character to_string puts before the imaginary part.
img_sign(z) == IF FGeZero(z.img) THEN "+" ELSE "-"

\* (mutant) the number rendered in the form from_string reads
to_string_pair(z) == FloatRepr(z.real) \o <<",">> \o FloatRepr(z.img)

\* ComplexNumber.to_string
to_string(z) ==
    FloatRepr(z.real) \o <<img_sign(z)>> \o FloatRepr(FAbs(z.img)) \o <<"i">>

---------------------------------------------------------------------------
\* The operations.

ComplexAddition(first, second) ==
    Ok(ComplexNumber(FAdd(first.real, second.real), FAdd(first.img, second.img)))

ComplexSubtraction(first, second) ==
    Ok(ComplexNumber(FSub(first.real, second.real), FSub(first.img, second.img)))

ComplexMultiplication(first, second) ==
    Ok(ComplexNumber(FSub(FMul(first.real, second.real), FMul(first.img, second.img)),
                     FAdd(FMul(first.real, second.img), FMul(first.img, second.real))))

\* denominator = second.magnitude ** 2
denominator(second) ==
    LET m == magnitude(second)
    IN IF ~m.ok THEN m ELSE FPow2(m.val)

ComplexDivision(first, second) ==
    LET d == denominator(second)
    IN IF ~d.ok THEN Raise(NoNumber, d.exc)
       ELSE IF FEq(d.val, Zero)
       THEN Raise(NoNumber, Exc("ZeroDivisionError",
                                "Division by zero is not allowed for complex numbers", <<>>))
       ELSE Ok(ComplexNumber(
                FDiv(FAdd(FMul(first.real, second.real), FMul(first.img, second.img)), d.val),
                FDiv(FSub(FMul(first.img, second.real), FMul(first.real, second.img)), d.val)))

\* operation.apply(first, second), dispatched on the operation's class.
apply(operation, first, second) ==
    CASE operation = "ComplexAddition" -> ComplexAddition(first, second)
      [] operation = "ComplexSubtraction" -> ComplexSubtraction(first, second)
      [] operation = "ComplexMultiplication" -> ComplexMultiplication(first, second)
      [] operation = "ComplexDivision" -> ComplexDivision(first, second)

\* class ComplexOperationFactory
create_addition == "ComplexAddition"
create_subtraction == "ComplexSubtraction"
create_multiplication == "ComplexMultiplication"
create_division == "ComplexDivision"

\* (mutant) the token stripped of surrounding whitespace before the comparison
create_stripped(operation) ==
    IF Strip(operation) = <<"+">> THEN Ok(create_addition)
    ELSE IF Strip(operation) = <<"-">> THEN Ok(create_subtraction)
    ELSE IF Strip(operation) = <<"*">> THEN Ok(create_multiplication)
    ELSE IF Strip(operation) = <<"/">> THEN Ok(create_division)
    ELSE Raise("none", Exc("ValueError", "Invalid operation: {}", operation))

\* BaseOperationFactory.create
create(operation) ==
    IF operation = <<"+">> THEN Ok(create_addition)
    ELSE IF operation = <<"-">> THEN Ok(create_subtraction)
    ELSE IF operation = <<"*">> THEN Ok(create_multiplication)
    ELSE IF operation = <<"/">> THEN Ok(create_division)
    ELSE Raise("none", Exc("ValueError", "Invalid operation: {}", operation))

---------------------------------------------------------------------------
\* State.  pc, operation, first, second, result are main()'s position and
\* locals; out is what the last step logged; caught is the last exception the
\* except clause caught, raised the call that raised in the last step, reads
\* the texts input() returned in the current pass of the loop.  fn, args, ret
\* and phase hold a single call of one function of the core and its outcome.

VARIABLES pc, operation, first, second, result, out, caught, raised, reads,
          fn, args, ret, phase

shell == <<pc, operation, first, second, result, out, caught, raised, reads>>
harness == <<fn, args, ret, phase>>
vars == <<pc, operation, first, second, result, out, caught, raised, reads,
          fn, args, ret, phase>>

\* A local variable: unbound, bound to a string, or bound to an object.
Unbound == [t |-> "unbound", s |-> <<>>]
StrVal(s) == [t |-> "str", s |-> s]
ObjVal(v) == [t |-> "obj", v |-> v]

ShellIdle == /\ pc = "idle" /\ operation = Unbound /\ first = Unbound
             /\ second = Unbound /\ result = Unbound /\ out = <<>>
             /\ caught = NoExc /\ raised = "none" /\ reads = <<>>

HarnessIdle == fn = "none" /\ args = <<>> /\ ret = <<>> /\ phase = "idle"

---------------------------------------------------------------------------
\* Inputs.

\* Longest operator token, longest operand text, largest integer component.
MaxTokLen == 2
MaxTextLen == 4
MaxInt == 2

Seqs(A, n) == UNION {[1..k -> A] : k \in 0..n}

Tokens == Seqs({"+", "-", "*", "/", " ", "q", "x"}, MaxTokLen)

ExampleTexts ==
    { <<"1", ",", "2">>, <<"1", ",", "2", ",", "3">>, <<"a", "b", "c">>, <<"1">>,
      <<" ", "1", " ", ",", " ", "-", "2", ".", "5", " ">>,
      <<"i", "n", "f", ",", "0">>, <<"1", ",", "-", "i", "n", "f">>,
      <<"n", "a", "n", ",", "n", "a", "n">>, <<"1", ".", "0", "+", "2", ".", "0", "i">>,
      <<"q">>, <<"1", ",">>, <<"1", " ", "2", ",", "3">>, <<"0", ",", "-", "0">> }

Texts == Seqs({"1", "2", "-", ".", ",", " ", "n", "a"}, MaxTextLen) \cup ExampleTexts

AllComplex == {ComplexNumber(r, i) : r, i \in Floats}

OfInt(k) == IF k < 0 THEN Fin(1, (-k) * One) ELSE Fin(0, k * One)
IntComplex == {ComplexNumber(OfInt(r), OfInt(i)) : r, i \in (-MaxInt)..MaxInt}

OperationClasses == {create_addition, create_subtraction, create_multiplication, create_division}

Dividends == {ComplexNumber(OfInt(1), Zero), ComplexNumber(OfInt(-2), OfInt(1))}

\* The operand triples a single apply is checked on: every operation on every
\* pair of small integer operands, every divisor under a few dividends, and
\* every number against zero, one and itself.
ArithInput(x) ==
    \/ \E o \in OperationClasses, a \in IntComplex, b \in IntComplex : x = <<o, a, b>>
    \/ \E a \in Dividends, b \in AllComplex : x = <<create_division, a, b>>
    \/ \E a \in AllComplex : x = <<create_addition, a, ComplexNumber(Zero, Zero)>>
    \/ \E a \in AllComplex : x = <<create_multiplication, a, ComplexNumber(OfInt(1), Zero)>>
    \/ \E a \in AllComplex : x = <<create_subtraction, a, a>>

---------------------------------------------------------------------------
\* Single calls of the core's functions.

InitCall(f) == ShellIdle /\ fn = f /\ ret = <<>> /\ phase = "call"

Return(r) == /\ phase = "call"
             /\ ret' = r /\ phase' = "returned"
             /\ UNCHANGED <<fn, args>> /\ UNCHANGED shell

\* operation_factory.create(token)
CallCreate == fn = "create" /\ Return(create(args))

InitSelect == InitCall("create") /\ args \in Tokens
SpecSelect == InitSelect /\ [][CallCreate]_vars

\* ComplexNumber.from_string(text)
CallFromString == fn = "from_string" /\ Return(from_string(args))

InitParse == InitCall("from_string") /\ args \in Texts
SpecParse == InitParse /\ [][CallFromString]_vars

\* str(z), then ComplexNumber.from_string(str(z))
CallToString == fn = "to_string" /\ Return(to_string(args))

ParseBack == /\ fn = "to_string" /\ phase = "returned"
             /\ ret' = from_string(ret) /\ phase' = "parsed_back"
             /\ UNCHANGED <<fn, args>> /\ UNCHANGED shell

InitFormat == InitCall("to_string") /\ args \in AllComplex
SpecFormat == InitFormat /\ [][CallToString \/ ParseBack]_vars

\* operation.apply(first, second), then Division.apply(product, second)
CallApply == fn = "apply" /\ Return(apply(args[1], args[2], args[3]))

DivideBack == /\ fn = "apply" /\ phase = "returned"
              /\ args[1] = create_multiplication /\ args[2] \in IntComplex /\ args[3] \in IntComplex
              /\ ret.ok
              /\ ret' = ComplexDivision(ret.val, args[3]) /\ phase' = "divided_back"
              /\ UNCHANGED <<fn, args>> /\ UNCHANGED shell

InitArith == InitCall("apply") /\ ArithInput(args)
SpecArith == InitArith /\ [][CallApply \/ DivideBack]_vars

---------------------------------------------------------------------------
\* main(): the interactive loop.  One step runs from the return of one input()
\* to the next call of input(), or to the break.

\* Log records.  The message texts are the source's, in English.
Info(msg, arg) == [level |-> "INFO", msg |-> msg, arg |-> arg]
\* logger.error(f"... {exc}"): str(exc) is the message, without the class.
Error(e) == [level |-> "ERROR", msg |-> e.msg, arg |-> e.arg]
PromptOperation == Info("Enter an operation (+,-,*,/) or q to quit:", <<>>)
PromptFirst == Info("Enter the first complex number as a,b:", <<>>)
PromptSecond == Info("Enter the second complex number as c,d:", <<>>)
LogExit == Info("Exit", <<>>)
LogResult(z) == Info("Result: {}", to_string(z))

ExitToken == <<"q">>

ShellTokens == { <<"+">>, <<"-">>, <<"*">>, <<"/">>, ExitToken, <<>>, <<"x">> }

ShellTexts == { <<"1", ",", "0">>, <<"0", ",", "0">>, <<"6", ",", "-", "6">>,
                <<"n", "a", "n", ",", "1">>, ExitToken, <<"1", ",", "2", ",", "3">>,
                <<"1", ",", " ", "x">> }

\* (mutant) the failed input asked for again instead of a new pass of the loop
Except_retry(e, by) == /\ caught' = e /\ raised' = by
                       /\ out' = <<Error(e), PromptOperation>>
                       /\ pc' = pc

\* except Exception as exc: log it and go round the loop again.
Except(e, by) == /\ caught' = e /\ raised' = by
                 /\ out' = <<Error(e), PromptOperation>>
                 /\ pc' = "operation"

NoExcept == caught' = caught /\ raised' = "none"

\* operation = input(), the exit test, operation_factory.create(operation)
ReadOperation(text) ==
    /\ pc = "operation"
    /\ reads' = <<text>>
    /\ UNCHANGED <<first, second, result>>
    /\ IF text = ExitToken
       THEN /\ operation' = StrVal(text)
            /\ out' = <<LogExit>> /\ pc' = "exit" /\ NoExcept
       ELSE \E r \in {create(text)} :
               IF r.ok
               THEN /\ operation' = ObjVal(r.val)
                    /\ out' = <<PromptFirst>> /\ pc' = "first" /\ NoExcept
               ELSE /\ operation' = StrVal(text)
                    /\ Except(r.exc, "create")
    /\ UNCHANGED harness

\* (mutant) the exit token honoured at the first operand's prompt too
ReadFirst_exits(text) ==
    /\ pc = "first"
    /\ reads' = Append(reads, text)
    /\ UNCHANGED <<operation, second, result>>
    /\ IF text = ExitToken
       THEN /\ first' = StrVal(text)
            /\ out' = <<LogExit>> /\ pc' = "exit" /\ NoExcept
       ELSE \E r \in {from_string(text)} :
               IF r.ok
               THEN /\ first' = ObjVal(r.val)
                    /\ out' = <<PromptSecond>> /\ pc' = "second" /\ NoExcept
               ELSE /\ first' = StrVal(text)
                    /\ Except(r.exc, "from_string")
    /\ UNCHANGED harness

\* first = input(), ComplexNumber.from_string(first)
ReadFirst(text) ==
    /\ pc = "first"
    /\ reads' = Append(reads, text)
    /\ UNCHANGED <<operation, second, result>>
    /\ \E r \in {from_string(text)} :
          IF r.ok
          THEN /\ first' = ObjVal(r.val)
               /\ out' = <<PromptSecond>> /\ pc' = "second" /\ NoExcept
          ELSE /\ first' = StrVal(text)
               /\ Except(r.exc, "from_string")
    /\ UNCHANGED harness

\* operation.apply(first, second) and the log line of its result
ApplyAndLog(z) ==
    \E a \in {apply(operation.v, first.v, z)} :
       IF a.ok
       THEN /\ result' = ObjVal(a.val)
            /\ out' = <<LogResult(a.val), PromptOperation>>
            /\ pc' = "operation" /\ NoExcept
       ELSE /\ result' = result
            /\ Except(a.exc, "apply")

\* second = input(), ComplexNumber.from_string(second),
\* operation.apply(first, second), the result's log line
ReadSecond(text) ==
    /\ pc = "second"
    /\ reads' = Append(reads, text)
    /\ UNCHANGED <<operation, first>>
    /\ \E r \in {from_string(text)} :
          IF r.ok
          THEN /\ second' = ObjVal(r.val)
               /\ ApplyAndLog(r.val)
          ELSE /\ second' = StrVal(text) /\ result' = result
               /\ Except(r.exc, "from_string")
    /\ UNCHANGED harness

\* input() at the end of the input stream raises EOFError, an Exception.
InputEOF ==
    /\ pc \in {"operation", "first", "second"}
    /\ Except(Exc("EOFError", "EOF when reading a line", <<>>), "input")
    /\ UNCHANGED <<operation, first, second, result, reads>>
    /\ UNCHANGED harness

Init == /\ pc = "operation" /\ operation = Unbound /\ first = Unbound
        /\ second = Unbound /\ result = Unbound
        /\ out = <<Info("Complex number calculator", <<>>), PromptOperation>>
        /\ caught = NoExc /\ raised = "none" /\ reads = <<>>
        /\ HarnessIdle

Next == \/ \E text \in ShellTokens : ReadOperation(text)
        \/ \E text \in ShellTexts : ReadFirst(text)
        \/ \E text \in ShellTexts : ReadSecond(text)
        \/ InputEOF

Spec == Init /\ [][Next]_vars

---------------------------------------------------------------------------
\* Properties of the operation selector (under SpecSelect).

\* C1: create succeeds exactly on the tokens "+", "-", "*", "/", giving
\* Addition, Subtraction, Multiplication and Division in that order; on every
\* other token (empty, several characters, surrounding whitespace) it raises
\* the invalid-operation error, whose message carries the token unchanged.
C1_SelectorTotalExclusive ==
    phase = "returned" =>
       /\ ret.ok <=> args \in {<<"+">>, <<"-">>, <<"*">>, <<"/">>}
       /\ args = <<"+">> => ret.val = "ComplexAddition"
       /\ args = <<"-">> => ret.val = "ComplexSubtraction"
       /\ args = <<"*">> => ret.val = "ComplexMultiplication"
       /\ args = <<"/">> => ret.val = "ComplexDivision"
       /\ ~ret.ok => /\ ret.exc.kind = "ValueError"
                     /\ ret.exc.msg = "Invalid operation: {}"
                     /\ ret.exc.arg = args

C1_Witness == /\ phase = "returned" /\ args = <<" ", "+">>
              /\ ~ret.ok /\ ret.exc.arg = <<" ", "+">>

---------------------------------------------------------------------------
\* Properties of parsing and formatting (under SpecParse and SpecFormat).

FLtZero(x) == ~IsNaN(x) /\ ~FGeZero(x)
FiniteNumber(z) == IsFinite(z.real) /\ IsFinite(z.img)
CommaCount(s) == Cardinality({i \in 1..Len(s) : s[i] = ","})
FiniteNumeral(field) == ParseFloat(Strip(field)).ok /\ IsFinite(ParseFloat(Strip(field)).val)

\* C3: from_string succeeds exactly when the text has one comma and both
\* stripped fields are numerals of finite numbers, and then returns the number
\* with those parts; in every other case it fails and returns no number.
C3_ParseSucceedsIffFinitePair ==
    phase = "returned" =>
       LET parts == Split(args, ",")
       IN /\ ret.ok <=> /\ CommaCount(args) = 1
                        /\ FiniteNumeral(parts[1]) /\ FiniteNumeral(parts[2])
          /\ ret.ok => /\ FiniteNumber(ret.val)
                       /\ ret.val.real = ParseFloat(Strip(parts[1])).val
                       /\ ret.val.img = ParseFloat(Strip(parts[2])).val
          /\ ~ret.ok => ret.val = NoNumber /\ ret.exc.kind = "ValueError"

\* C4 as stated: parsing the formatted text of a finite number gives it back.
C4_RoundTrip ==
    phase = "parsed_back" /\ FiniteNumber(args) =>
       ret.ok /\ FEq(ret.val.real, args.real) /\ FEq(ret.val.img, args.img)

\* C4 as amended: from_string rejects the formatted text of every number: the
\* text has no comma, so the unpacking of the two fields fails.
C4_FormattedTextNotParsable ==
    phase = "parsed_back" =>
       /\ ~ret.ok
       /\ ret.exc = Exc("ValueError", "not enough values to unpack (expected 2, got 1)", <<>>)

C4_Witness == /\ phase = "parsed_back"
              /\ args = ComplexNumber(OfInt(1), OfInt(-2))
              /\ ~ret.ok

\* The position of the sign in a formatted text: the last "+" or "-".
SignAt(s) == CHOOSE k \in 1..Len(s) :
                /\ s[k] \in {"+", "-"}
                /\ \A j \in (k + 1)..Len(s) : s[j] \notin {"+", "-"}

\* C8 as amended: to_string renders the real part, a sign, the absolute value
\* of the imaginary part and "i"; the sign is "+" exactly when the imaginary
\* part is >= 0 (both zeros included) and "-" otherwise, that is when it is
\* negative or NaN; no minus sign follows the sign.
C8_FormatShape ==
    phase = "returned" =>
       LET k == SignAt(ret)
       IN /\ Len(ret) >= 3 /\ ret[Len(ret)] = "i"
          /\ SubSeq(ret, 1, k - 1) = FloatRepr(args.real)
          /\ ret[k] = "+" <=> FGeZero(args.img)
          /\ ret[k] = "-" <=> (FLtZero(args.img) \/ IsNaN(args.img))
          /\ ParseFloat(SubSeq(ret, k + 1, Len(ret) - 1)) = Ok(FAbs(args.img))

\* C8 as stated: the sign is "-" exactly when the imaginary part is negative.
C8_MinusExactlyWhenNegative ==
    phase = "returned" => (ret[SignAt(ret)] = "-" <=> FLtZero(args.img))

C8_Witness == /\ phase = "returned"
              /\ args = ComplexNumber(OfInt(-1), Fin(1, 0))
              /\ ret = <<"-", "1", ".", "0", "+", "0", ".", "0", "i">>

---------------------------------------------------------------------------
\* Properties of the four operations (under SpecArith).

IsZeroNumber(z) == FEq(z.real, Zero) /\ FEq(z.img, Zero)
NumEq(x, y) == FEq(x.real, y.real) /\ FEq(x.img, y.img)

\* The float nearest to the rational num/den, num and den integers, den > 0.
Nearest(num, den) == IF num < 0 THEN Round(1, -num, den) ELSE Round(0, num, den)

\* Exact integer arithmetic on the units of finite operands.
\* A product of two floats is in units of 2^-(2 Frac).
ExactRealProduct(a, b) == Val(a.real) * Val(b.real) - Val(a.img) * Val(b.img)
ExactImgProduct(a, b) == Val(a.real) * Val(b.img) + Val(a.img) * Val(b.real)
ExactRealNumerator(a, b) == Val(a.real) * Val(b.real) + Val(a.img) * Val(b.img)
ExactImgNumerator(a, b) == Val(a.img) * Val(b.real) - Val(a.real) * Val(b.img)
ExactSquares(b) == Val(b.real) * Val(b.real) + Val(b.img) * Val(b.img)

\* C2: Division.apply fails with the division-by-zero error when the divisor
\* is (0,0), whatever the dividend, and does not fail for any other divisor.
\* (Stated for divisors with finite parts.)
C2_DivisionFailsOnlyOnZero ==
    phase = "returned" /\ args[1] = create_division /\ FiniteNumber(args[3]) =>
       /\ IsZeroNumber(args[3]) => ~ret.ok /\ ret.exc.kind = "ZeroDivisionError"
                                   /\ ret.val = NoNumber
       /\ ~IsZeroNumber(args[3]) => ret.ok

\* The rows of the table other than Division, and the identities: on small
\* integer operands the sum, the difference and the product are the exact ones; adding (0,0) to,
\* or multiplying by (1,0), a number with finite parts gives a number equal to
\* it, and subtracting it from itself gives (0,0).
TableWithoutDivision ==
    LET o == args[1]
        a == args[2]
        b == args[3]
    IN /\ a \in IntComplex /\ b \in IntComplex /\ o = create_addition =>
            /\ ret.ok
            /\ Val(ret.val.real) = Val(a.real) + Val(b.real)
            /\ Val(ret.val.img) = Val(a.img) + Val(b.img)
       /\ a \in IntComplex /\ b \in IntComplex /\ o = create_subtraction =>
            /\ ret.ok
            /\ Val(ret.val.real) = Val(a.real) - Val(b.real)
            /\ Val(ret.val.img) = Val(a.img) - Val(b.img)
       /\ a \in IntComplex /\ b \in IntComplex /\ o = create_multiplication =>
            /\ ret.ok
            /\ Val(ret.val.real) * One = ExactRealProduct(a, b)
            /\ Val(ret.val.img) * One = ExactImgProduct(a, b)
       /\ FiniteNumber(a) /\ o = create_addition /\ IsZeroNumber(b) =>
            ret.ok /\ NumEq(ret.val, a)
       /\ FiniteNumber(a) /\ o = create_multiplication /\ b = ComplexNumber(OfInt(1), Zero) =>
            ret.ok /\ NumEq(ret.val, a)
       /\ FiniteNumber(a) /\ o = create_subtraction /\ b = a =>
            ret.ok /\ IsZeroNumber(ret.val)

\* The quotient of the table on small integer operands, with d (in units) as
\* divisor: a numerator in units of 2^-(2 Frac) over d is the quotient in units.
QuotientIs(d) ==
    /\ ret.ok
    /\ FEq(ret.val.real, Nearest(ExactRealNumerator(args[2], args[3]), d))
    /\ FEq(ret.val.img, Nearest(ExactImgNumerator(args[2], args[3]), d))

IntDivision == /\ args[1] = create_division
               /\ args[2] \in IntComplex /\ args[3] \in IntComplex
               /\ ~IsZeroNumber(args[3])

\* C7: every operation returns the components of the table, Division with
\* d = b.real^2 + b.img^2 (on small integer operands, b other than (0,0));
\* adding (0,0), multiplying by (1,0) and subtracting a number from itself
\* give a, a and (0,0).
C7_TableExactDenominator ==
    phase = "returned" =>
       /\ TableWithoutDivision
       /\ IntDivision => QuotientIs(ExactSquares(args[3]) \div One)

\* C6: on small integer operands, b other than (0,0), dividing the product
\* a*b by b gives exactly a.
C6_DivisionInvertsExactly ==
    phase = "divided_back" /\ ~IsZeroNumber(args[3]) =>
       ret.ok /\ NumEq(ret.val, args[2])

---------------------------------------------------------------------------
\* Properties of the interactive loop (under Spec).

Last(s) == s[Len(s)]
UnpackMessages == {"not enough values to unpack (expected 2, got 1)",
                   "too many values to unpack (expected 2)"}
ConvertMessage == "could not convert string to float: {}"

\* The kinds of the exceptions each call of the core raises on the loop's inputs.
SelectorFailureKinds == {create(t).exc.kind : t \in {t \in ShellTokens : ~create(t).ok}}
ParseFailureKinds == {from_string(t).exc.kind : t \in {t \in ShellTexts : ~from_string(t).ok}}

\* C5 as stated: the kind of a failure tells which call failed (a parse
\* failure never has the kind of a selector failure), and a parse failure
\* carries the text that was given to from_string.
C5_KindsPairwiseDistinct ==
    /\ raised = "from_string" => caught.kind \notin SelectorFailureKinds
    /\ raised = "create" => caught.kind \notin ParseFailureKinds
    /\ raised = "from_string" => caught.arg = Last(reads)

\* C5 as amended: a selector failure and a parse failure are both ValueError
\* and differ only in the message; the selector's message carries the token;
\* a parse failure's message carries the stripped field that is no numeral,
\* and no text at all when the number of commas is wrong; a failure of
\* Division has another kind (ZeroDivisionError, or OverflowError).
C5_FailureKinds ==
    /\ raised = "create" =>
          /\ caught.kind = "ValueError" /\ caught.msg = "Invalid operation: {}"
          /\ caught.arg = Last(reads)
    /\ raised = "from_string" =>
          /\ caught.kind = "ValueError"
          /\ caught.msg \in UnpackMessages \cup {ConvertMessage}
          /\ caught.msg \in UnpackMessages <=> CommaCount(Last(reads)) # 1
          /\ caught.msg \in UnpackMessages => caught.arg = <<>>
          /\ caught.msg = ConvertMessage =>
                \E i \in 1..2 : caught.arg = Strip(Split(Last(reads), ",")[i])
    /\ raised = "apply" =>
          /\ caught.kind \in {"ZeroDivisionError", "OverflowError"}
          /\ operation = ObjVal(create_division)

C5_Witness == /\ raised = "from_string"
              /\ Last(reads) = <<"1", ",", " ", "x">>
              /\ caught = Exc("ValueError", ConvertMessage, <<"x">>)

\* C9: a failure of create, from_string or apply is logged as an error with no
\* result line, leaves the loop at the operator's prompt (never at the exit),
\* and every result that is logged is computed from the three texts read in
\* the current pass of the loop alone.
C9_FailureScopedToRequest ==
    /\ raised # "none" => /\ pc = "operation"
                          /\ out = <<Error(caught), PromptOperation>>
    /\ pc = "first" => /\ Len(reads) = 1 /\ create(reads[1]).ok
                       /\ operation = ObjVal(create(reads[1]).val)
    /\ pc = "second" => /\ Len(reads) = 2 /\ create(reads[1]).ok /\ from_string(reads[2]).ok
                        /\ operation = ObjVal(create(reads[1]).val)
                        /\ first = ObjVal(from_string(reads[2]).val)
    /\ out[1].msg = "Result: {}" =>
          /\ Len(reads) = 3 /\ pc = "operation" /\ raised = "none"
          /\ create(reads[1]).ok /\ from_string(reads[2]).ok /\ from_string(reads[3]).ok
          /\ \E r \in {apply(create(reads[1]).val, from_string(reads[2]).val,
                             from_string(reads[3]).val)} :
                r.ok /\ result = ObjVal(r.val) /\ out[1].arg = to_string(r.val)

C9_Witness == /\ out[1].msg = "Result: {}"
              /\ caught.kind = "ZeroDivisionError"
              /\ reads = <<<<"+">>, <<"1", ",", "0">>, <<"0", ",", "0">>>>

\* C10: the loop ends only on the exit token read at the operator's prompt, and
\* nothing follows the exit; the exit token read at an operand's prompt is a
\* parse failure that leads back to the operator's prompt; an invalid operator
\* is reported before any operand is read.
C10_ExitOnlyOnExitToken ==
    [][ /\ pc # "exit"
        /\ pc' = "exit" => pc = "operation" /\ reads' = <<ExitToken>>
        /\ (pc = "operation" /\ reads' = <<ExitToken>> /\ raised' = "none") => pc' = "exit"
        /\ (pc \in {"first", "second"} /\ reads' = Append(reads, ExitToken)) =>
              pc' = "operation" /\ raised' = "from_string"
        /\ raised' = "create" => /\ Len(reads') = 1
                                 /\ first' = first /\ second' = second
                                 /\ out' = <<Error(caught'), PromptOperation>> ]_vars

C10_Witness == /\ pc = "operation" /\ raised = "from_string"
               /\ reads = <<<<"+">>, ExitToken>>

=============================================================================
